---- MODULE Spec2Model ----
(***************************************************************************)
(* HeuristicSolver (factryengine/scheduler/heuristic_solver/main.py): the  *)
(* greedy loop that walks task_order, computes each task's earliest start  *)
(* from its predecessors, asks the WindowManager for windows, asks the     *)
(* TaskAllocator for an allocation, commits it and records the result.     *)
(*                                                                         *)
(* WindowManager, TaskAllocator and get_task_predecessors are imported by  *)
(* main.py but their bodies are not among the sources; they are modelled   *)
(* from the design document (sections 4.1, 4.2 and 9).                     *)
(***************************************************************************)
EXTENDS Integers, Sequences, FiniteSets, TLC

(***************************************************************************)
(* Bounds of the model.                                                    *)
(***************************************************************************)
\* a task's duration is 1 or MaxDur
MaxDur == 3
\* a task's predecessor delay is 0 or MaxDelay
MaxDelay == 2

\* the keys of task_dict, in key order
TaskIds == {1, 2, 3}
\* the ids of the resources handed to the constructor
ResourceIds == {1, 2}

(***************************************************************************)
(* Python values.                                                          *)
(***************************************************************************)
\* None, and a value that is not None
None == << >>
Some(v) == << v >>
Val(o) == o[1]

Min(S) == CHOOSE x \in S : \A y \in S : x <= y
Max(S) == CHOOSE x \in S : \A y \in S : x >= y

\* max(xs, default=d)
MaxDefault(S, d) == IF S = {} THEN d ELSE Max(S)

\* the elements of a finite set of integers, ascending
RECURSIVE SortedSeq(_)
SortedSeq(S) ==
    IF S = {} THEN << >>
    ELSE LET m == Min(S) IN << m >> \o SortedSeq(S \ {m})

Range(s) == { s[k] : k \in DOMAIN s }

(***************************************************************************)
(* Windows: a window is <<start, end>>, the half-open interval             *)
(* [start, end); a calendar is a sequence of windows.                      *)
(***************************************************************************)
Points(w) == w[1] .. (w[2] - 1)

CalendarPoints(cal) == UNION { Points(cal[k]) : k \in DOMAIN cal }

\* sorted by start, mutually non-overlapping, start < end
WellFormed(cal) ==
    /\ \A k \in DOMAIN cal : cal[k][1] < cal[k][2]
    /\ \A k \in DOMAIN cal : k > 1 => cal[k - 1][2] <= cal[k][1]

\* the resource sets the solver may be constructed with: resource id ->
\* availability windows
ResourceSets ==
    { [r \in ResourceIds |->
          IF r = 1 THEN << <<0, 4>>, <<5, 10>> >> ELSE << <<1, 3>> >>],
      [r \in ResourceIds |->
          IF r = 1 THEN << <<0, 2>> >> ELSE << >>] }

(***************************************************************************)
(* WindowManager (design document, section 4.1): one calendar per          *)
(* resource.                                                               *)
(***************************************************************************)
\* WindowManager(resources): the calendars as constructed
WindowManagerInit(rs) == rs

\* the part of a calendar at or after floor_time; a window straddling
\* floor_time is clipped so that it starts at floor_time
WindowsFrom(cal, floor_time) ==
    LET kept == SelectSeq(cal, LAMBDA w : w[2] > floor_time)
    IN  [k \in DOMAIN kept |->
            << IF kept[k][1] < floor_time THEN floor_time ELSE kept[k][1],
               kept[k][2] >>]

\* resources with no availability at or after floor_time are omitted
get_task_resource_windows_dict(wm, task_resource_ids, floor_time) ==
    LET avail == { r \in task_resource_ids \cap DOMAIN wm :
                      WindowsFrom(wm[r], floor_time) # << >> }
    IN  [r \in avail |-> WindowsFrom(wm[r], floor_time)]

\* the sub-interval lies within a single window of the calendar
Contained(cal, iv) ==
    \E k \in DOMAIN cal : cal[k][1] <= iv[1] /\ iv[2] <= cal[k][2]

\* the calendar with the span iv cut out of the window that contains it:
\* what is left of that window before and after the span stays
RemoveSpan(cal, iv) ==
    LET k == CHOOSE j \in DOMAIN cal : cal[j][1] <= iv[1] /\ iv[2] <= cal[j][2]
        before == IF cal[k][1] < iv[1] THEN << <<cal[k][1], iv[1]>> >> ELSE << >>
        after == IF iv[2] < cal[k][2] THEN << <<iv[2], cal[k][2]>> >> ELSE << >>
    IN  SubSeq(cal, 1, k - 1) \o before \o after \o SubSeq(cal, k + 1, Len(cal))

\* every proposed sub-interval can be committed
CommitOk(wm, alloc) == \A r \in DOMAIN alloc : Contained(wm[r], alloc[r])

update_resource_windows(wm, alloc) ==
    [r \in DOMAIN wm |->
        IF r \in DOMAIN alloc THEN RemoveSpan(wm[r], alloc[r]) ELSE wm[r]]

(***************************************************************************)
(* TaskAllocator (design document, section 4.2): greedy earliest fit.      *)
(* The result maps each selected resource to one <<start, end>>, as        *)
(* solve unpacks it (main.py lines 81-86). assignments is the number of    *)
(* resources that share the effort: 1 assigns the task to one resource.    *)
(***************************************************************************)
AllocationError(reason) == [ok |-> FALSE, reason |-> reason]
Allocated(alloc) == [ok |-> TRUE, alloc |-> alloc]

\* S is before T in the order by resource id
LexLess(S, T) == S # T /\ Min((S \ T) \cup (T \ S)) \in S

\* the sub-share of resource r among the participants S: the effort split
\* evenly, the remainder going to the lowest ids
Share(S, r, task_duration) ==
    LET rank == Cardinality({ q \in S : q < r })
    IN  (task_duration \div Cardinality(S))
          + (IF rank < task_duration % Cardinality(S) THEN 1 ELSE 0)

\* the participants S can all start at s and work their share without
\* leaving a window
FitsAt(rwd, S, s, task_duration, constraints) ==
    \A r \in S :
        /\ Share(S, r, task_duration) >= 1
        /\ Share(S, r, task_duration) >= constraints
        /\ Contained(rwd[r], << s, s + Share(S, r, task_duration) >>)

\* the candidates <<participants, start>> that fit
Feasible(rwd, assignments, task_duration, constraints) ==
    { c \in { S \in SUBSET (DOMAIN rwd) : Cardinality(S) = assignments }
              \X UNION { { rwd[r][k][1] : k \in DOMAIN rwd[r] } : r \in DOMAIN rwd } :
        FitsAt(rwd, c[1], c[2], task_duration, constraints) }

\* candidate c is chosen before candidate d: the earlier start, then the
\* lower resource ids
Preferred(c, d) == c[2] < d[2] \/ (c[2] = d[2] /\ LexLess(c[1], d[1]))

\* the allocation of candidate c
Proposal(c, task_duration) ==
    Allocated([r \in c[1] |-> << c[2], c[2] + Share(c[1], r, task_duration) >>])

allocate_task(rwd, assignments, task_duration, constraints) ==
    LET feasible == Feasible(rwd, assignments, task_duration, constraints)
    IN  IF Cardinality(DOMAIN rwd) < assignments
        THEN AllocationError("not enough resources")
        ELSE IF feasible = {}
        THEN AllocationError("insufficient availability")
        ELSE Proposal(CHOOSE c \in feasible :
                          \A d \in feasible : d = c \/ Preferred(c, d),
                      task_duration)

(***************************************************************************)
(* The inputs of HeuristicSolver(task_dict, resources, task_order).        *)
(***************************************************************************)
\* what a task may ask for: <<eligible resources, assignments>>
Requests == { << {1}, 1 >>, << {1, 2}, 1 >>, << {1, 2}, 2 >> }

\* a Task: the fields solve reads
Task(d, ps, pd, rq) ==
    [duration |-> d, predecessors |-> ps, predecessor_delay |-> pd,
     resources |-> rq[1], assignments |-> rq[2], constraints |-> 0]

\* a task solve never reads (it is not in task_order)
PlainTask == Task(1, {}, 0, << {1}, 1 >>)

\* task_order: task ids of task_dict, none of them twice
TaskOrders ==
    { o \in UNION { [1 .. n -> TaskIds] : n \in 0 .. Cardinality(TaskIds) } :
        \A j, k \in DOMAIN o : j # k => o[j] # o[k] }

\* p comes before t in the order
Before(p, t, order) ==
    \E j, k \in DOMAIN order : j < k /\ order[j] = p /\ order[k] = t

\* a task of the order is out of order when one of predecessors ps is not
\* before it, or is itself out of order: such a task is blocked whatever
\* happens, and the loop reads nothing of it but its predecessors
RECURSIVE OutOfOrder(_, _, _, _)
OutOfOrder(td, t, ps, order) ==
    \E p \in ps :
        \/ ~Before(p, t, order)
        \/ OutOfOrder(td, p, td[p].predecessors, order)

\* the tasks task t may be, given the tasks td of lower id: predecessors have
\* lower ids (the graph is acyclic), a task without predecessors has no use
\* for its delay, and the fields the loop never reads are left plain
TasksOf(td, t, order) ==
    IF t \notin Range(order) THEN {PlainTask}
    ELSE UNION { IF OutOfOrder(td, t, ps, order)
                 THEN { Task(1, ps, 0, << {1}, 1 >>) }
                 ELSE { Task(d, ps, pd, rq) :
                          d \in {1, MaxDur},
                          pd \in IF ps = {} THEN {0} ELSE {0, MaxDelay},
                          rq \in Requests } :
                 ps \in SUBSET { p \in TaskIds : p < t } }

\* the task dictionaries with keys S
RECURSIVE DictsOver(_, _)
DictsOver(S, order) ==
    IF S = {} THEN { << >> }
    ELSE LET t == Max(S)
         IN  UNION { { [x \in S |-> IF x = t THEN task ELSE td[x]] :
                         task \in TasksOf(td, t, order) } :
                     td \in DictsOver(S \ {t}, order) }

TaskDicts(order) == DictsOver(TaskIds, order)

VARIABLES
    task_dict,      \* self.task_dict
    task_order,     \* self.task_order
    resources,      \* the resources the solver was constructed with
    window_manager, \* self.window_manager: resource id -> remaining windows
    task_vars,      \* self.task_vars
    i,              \* position of the for loop in task_order
    pc,             \* "loop" | "done" | "raised"
    result,         \* the list solve returns
    processed,      \* history: the task ids the loop has taken, in order
    calls,          \* history: <<task id, collaborator method called for it>>
    \* Scheduler (Scheduler.py)
    tasks,              \* self.tasks
    horizon,            \* self.horizon
    resource_groups,    \* self.resource_groups
    self_resources,     \* self.resources
    resource_bools,     \* <<task id, resource id>> -> value of the BoolVar
    subtask_vars,       \* <<task id, resource id>> -> the subtasks, with values
    subtask_durations,  \* the durations of the subtasks of the resource at hand
    cursor,             \* <<index in tasks, index in task.get_resources()>>
    spc                 \* the position in Scheduler.schedule

scheduler_vars == << tasks, horizon, resource_groups, self_resources,
                     resource_bools, subtask_vars, subtask_durations, cursor, spc >>

solver_vars == << task_dict, task_order, resources, window_manager, task_vars,
                  i, pc, result, processed, calls >>

vars == << solver_vars, scheduler_vars >>

inputs == << task_dict, task_order, resources >>

\* no Scheduler has been constructed
SchedulerIdle ==
    /\ tasks = << >>
    /\ horizon = 0
    /\ resource_groups = {}
    /\ self_resources = {}
    /\ resource_bools = << >>
    /\ subtask_vars = << >>
    /\ subtask_durations = << >>
    /\ cursor = << 1, 1 >>
    /\ spc = "idle"

\* mutant: a record starts with a message saying the task is not scheduled
EmptyRecord_NotScheduled(task_id) ==
    [task_id |-> task_id,
     assigned_resource_ids |-> None,
     task_start |-> None,
     task_end |-> None,
     resource_intervals |-> None,
     error_message |-> Some("Not scheduled")]
\* the per-task record __init__ creates
EmptyRecord(task_id) ==
    [task_id |-> task_id,
     assigned_resource_ids |-> None,
     task_start |-> None,
     task_end |-> None,
     resource_intervals |-> None,
     error_message |-> None]

Init ==
    /\ task_order \in TaskOrders
    /\ task_dict \in TaskDicts(task_order)
    /\ resources \in ResourceSets
    /\ window_manager = WindowManagerInit(resources)
    /\ task_vars = [t \in TaskIds |-> EmptyRecord(t)]
    /\ i = 1
    /\ pc = "loop"
    /\ result = None
    /\ processed = << >>
    /\ calls = << >>
    /\ SchedulerIdle

(***************************************************************************)
(* HeuristicSolver                                                         *)
(***************************************************************************)
\* utils.get_task_predecessors: the tasks of task_dict the task names
get_task_predecessors(task, td) == task.predecessors \cap DOMAIN td

\* mutant: the delay is not added to the predecessors' ends
get_task_earliest_start_NoDelay(tv, task, td) ==
    LET predecessors == get_task_predecessors(task, td)
    IN  IF \E p \in predecessors : tv[p]["task_end"] = None
        THEN None
        ELSE Some(MaxDefault({ Val(tv[p]["task_end"]) : p \in predecessors }, 0))

\* mutant: a predecessor without a task_end is skipped instead of blocking
get_task_earliest_start_SkipsUnscheduled(tv, task, td) ==
    LET predecessors == get_task_predecessors(task, td)
    IN  Some(MaxDefault({ Val(tv[p]["task_end"]) + task.predecessor_delay :
                            p \in { q \in predecessors : tv[q]["task_end"] # None } },
                        0))

\* mutant: the earliest of the predecessors' ends instead of the latest
get_task_earliest_start_Min(tv, task, td) ==
    LET predecessors == get_task_predecessors(task, td)
        task_ends == { Val(tv[p]["task_end"]) + task.predecessor_delay :
                         p \in predecessors }
    IN  IF \E p \in predecessors : tv[p]["task_end"] = None
        THEN None
        ELSE Some(IF task_ends = {} THEN 0 ELSE Min(task_ends))

\* _get_task_earliest_start: None as soon as a predecessor has no task_end
get_task_earliest_start(tv, task, td) ==
    LET predecessors == get_task_predecessors(task, td)
    IN  IF \E p \in predecessors : tv[p]["task_end"] = None
        THEN None
        ELSE Some(MaxDefault({ Val(tv[p]["task_end"]) + task.predecessor_delay :
                                  p \in predecessors }, 0))

\* mutant: the message is stored under another key of the record
update_error_message_WrongKey(tv, task_id, message) ==
    [tv EXCEPT ![task_id] =
        [k \in DOMAIN tv[task_id] \cup {"error"} |->
            IF k = "error" THEN Some(message) ELSE tv[task_id][k]]]

\* mutant: the message is stored in the record of the first task of the
\* dictionary, whatever task it is about
update_error_message_FirstTask(tv, task_id, message) ==
    [tv EXCEPT ![Min(DOMAIN tv)] =
        [k \in DOMAIN tv[Min(DOMAIN tv)] \cup {"error_message"} |->
            IF k = "error_message" THEN Some(message) ELSE tv[Min(DOMAIN tv)][k]]]

\* _update_error_message: self.task_vars[task_id]["error_message"] = message
update_error_message(tv, task_id, message) ==
    [tv EXCEPT ![task_id] =
        [k \in DOMAIN tv[task_id] \cup {"error_message"} |->
            IF k = "error_message" THEN Some(message) ELSE tv[task_id][k]]]

\* mutant: the intervals are recorded in another order than the resource ids
task_values_Misaligned(task_id, alloc) ==
    [task_id |-> task_id,
     assigned_resource_ids |-> Some(SortedSeq(DOMAIN alloc)),
     task_start |-> Some(Min({ alloc[r][1] : r \in DOMAIN alloc })),
     task_end |-> Some(Max({ alloc[r][2] : r \in DOMAIN alloc })),
     resource_intervals |->
         Some([k \in 1 .. Cardinality(DOMAIN alloc) |->
                  alloc[SortedSeq(DOMAIN alloc)[Cardinality(DOMAIN alloc) + 1 - k]]])]

\* mutant: task_end is the earliest of the allocated ends, not the latest
task_values_EarliestEnd(task_id, alloc) ==
    [task_id |-> task_id,
     assigned_resource_ids |-> Some(SortedSeq(DOMAIN alloc)),
     task_start |-> Some(Min({ alloc[r][1] : r \in DOMAIN alloc })),
     task_end |-> Some(Min({ alloc[r][2] : r \in DOMAIN alloc })),
     resource_intervals |->
         Some([k \in 1 .. Cardinality(DOMAIN alloc) |->
                  alloc[SortedSeq(DOMAIN alloc)[k]]])]
\* the record solve builds for an allocated task (it has no error_message key)
task_values(task_id, alloc) ==
    [task_id |-> task_id,
     assigned_resource_ids |-> Some(SortedSeq(DOMAIN alloc)),
     task_start |-> Some(Min({ alloc[r][1] : r \in DOMAIN alloc })),
     task_end |-> Some(Max({ alloc[r][2] : r \in DOMAIN alloc })),
     resource_intervals |->
         Some([k \in 1 .. Cardinality(DOMAIN alloc) |->
                  alloc[SortedSeq(DOMAIN alloc)[k]]])]

\* the task the loop is at
CurId == task_order[i]
CurTask == task_dict[CurId]

\* line 40
CurEarliestStart == get_task_earliest_start(task_vars, CurTask, task_dict)

\* mutant: the windows are asked for from time 0, not from the earliest start
CurWindows_FromZero(task_earliest_start) ==
    get_task_resource_windows_dict(window_manager, CurTask.resources, 0)

\* lines 47-55
CurWindows(task_earliest_start) ==
    get_task_resource_windows_dict(window_manager, CurTask.resources,
                                   Val(task_earliest_start))

\* mutant: assignments and task_duration change places in the call
CurAllocation_SwappedArguments(task_resource_windows_dict) ==
    allocate_task(task_resource_windows_dict, CurTask.duration,
                  CurTask.assignments, CurTask.constraints)

\* lines 63-68
CurAllocation(task_resource_windows_dict) ==
    allocate_task(task_resource_windows_dict, CurTask.assignments,
                  CurTask.duration, CurTask.constraints)

InLoop == pc = "loop" /\ i <= Len(task_order)

\* the calls made for a task, in the order solve makes them
Called(task_id, methods) == [k \in DOMAIN methods |-> << task_id, methods[k] >>]

\* `continue`, and falling off the end of the loop body: the next task id
NextIteration ==
    /\ i' = i + 1
    /\ processed' = Append(processed, CurId)
    /\ UNCHANGED << inputs, scheduler_vars, pc, result >>

\* mutant: the records are returned in the order the tasks were taken
ResultList_InTaskOrder(tv) ==
    Some([k \in 1 .. Len(task_order) |-> tv[task_order[k]]])
\* the list solve returns: the records in task_dict's key order
ResultList(tv) ==
    Some([k \in 1 .. Cardinality(TaskIds) |-> tv[SortedSeq(TaskIds)[k]]])

\* mutant: a blocked task ends the loop (`break` for `continue`)
Blocked_Breaks ==
    /\ InLoop
    /\ CurEarliestStart = None
    /\ task_vars' = update_error_message(task_vars, CurId,
                                         "Task has unscheduled predecessors")
    /\ processed' = Append(processed, CurId)
    /\ pc' = "done"
    /\ result' = ResultList(task_vars')
    /\ UNCHANGED << inputs, scheduler_vars, window_manager, calls, i >>

\* mutant: a task held up by a predecessor the loop has not taken yet is
\* passed over without a message
Blocked_SkipsSilently ==
    /\ InLoop
    /\ CurEarliestStart = None
    /\ task_vars' =
           IF \E p \in get_task_predecessors(CurTask, task_dict) :
                  task_vars[p] = EmptyRecord(p)
           THEN task_vars
           ELSE update_error_message(task_vars, CurId,
                                     "Task has unscheduled predecessors")
    /\ UNCHANGED << window_manager, calls >>
    /\ NextIteration
\* lines 42-44
Blocked ==
    /\ InLoop
    /\ CurEarliestStart = None
    /\ task_vars' = update_error_message(task_vars, CurId,
                                         "Task has unscheduled predecessors")
    /\ UNCHANGED << window_manager, calls >>
    /\ NextIteration

\* mutant: a task that found no resources commits an empty proposal
NoResources_Commits ==
    /\ InLoop
    /\ LET est == CurEarliestStart
       IN  /\ est # None
           /\ CurWindows(est) = << >>
    /\ task_vars' = update_error_message(task_vars, CurId, "No available resources")
    /\ calls' = calls \o Called(CurId, << "get_task_resource_windows_dict",
                                          "update_resource_windows" >>)
    /\ UNCHANGED window_manager
    /\ NextIteration
\* lines 57-59
NoResources ==
    /\ InLoop
    /\ LET est == CurEarliestStart
       IN  /\ est # None
           /\ CurWindows(est) = << >>
    /\ task_vars' = update_error_message(task_vars, CurId, "No available resources")
    /\ calls' = calls \o Called(CurId, << "get_task_resource_windows_dict" >>)
    /\ UNCHANGED window_manager
    /\ NextIteration

\* what the allocator answers for the task, once it has windows
CurResult == CurAllocation(CurWindows(CurEarliestStart))

\* mutant: the message recorded is a fixed text, not the error's reason
AllocationFailed_FixedMessage ==
    /\ InLoop
    /\ LET est == CurEarliestStart
           rwd == CurWindows(est)
       IN  /\ est # None
           /\ rwd # << >>
           /\ ~CurAllocation(rwd).ok
    /\ task_vars' = update_error_message(task_vars, CurId, "Allocation failed")
    /\ calls' = calls \o Called(CurId, << "get_task_resource_windows_dict",
                                          "allocate_task" >>)
    /\ UNCHANGED window_manager
    /\ NextIteration
\* lines 62-72
AllocationFailed ==
    /\ InLoop
    /\ LET est == CurEarliestStart
           rwd == CurWindows(est)
       IN  /\ est # None
           /\ rwd # << >>
           /\ ~CurAllocation(rwd).ok
    /\ task_vars' = update_error_message(task_vars, CurId, CurResult.reason)
    /\ calls' = calls \o Called(CurId, << "get_task_resource_windows_dict",
                                          "allocate_task" >>)
    /\ UNCHANGED window_manager
    /\ NextIteration

\* mutant: the allocation is recorded but never committed to the calendars
Scheduled_NoCommit ==
    /\ InLoop
    /\ LET est == CurEarliestStart
           rwd == CurWindows(est)
       IN  /\ est # None
           /\ rwd # << >>
           /\ CurAllocation(rwd).ok
    /\ calls' = calls \o Called(CurId, << "get_task_resource_windows_dict",
                                          "allocate_task" >>)
    /\ task_vars' =
           [task_vars EXCEPT ![CurId] = task_values(CurId, CurResult.alloc)]
    /\ UNCHANGED window_manager
    /\ NextIteration

\* lines 74-89: commit, then record; a commit that fails raises out of solve
Scheduled ==
    /\ InLoop
    /\ LET est == CurEarliestStart
           rwd == CurWindows(est)
       IN  /\ est # None
           /\ rwd # << >>
           /\ CurAllocation(rwd).ok
    /\ calls' = calls \o Called(CurId, << "get_task_resource_windows_dict",
                                          "allocate_task",
                                          "update_resource_windows" >>)
    /\ IF CommitOk(window_manager, CurResult.alloc)
       THEN /\ window_manager' =
                   update_resource_windows(window_manager, CurResult.alloc)
            /\ task_vars' =
                   [task_vars EXCEPT ![CurId] = task_values(CurId, CurResult.alloc)]
            /\ NextIteration
       ELSE /\ pc' = "raised"
            /\ UNCHANGED << inputs, scheduler_vars, window_manager, task_vars, i, result,
                            processed >>

\* proposals with which an allocator would break its contract: one of the
\* supplied resources for a span that starts with a window of that resource
\* and runs past the window's end, so that it lies within no single window
BrokenProposals(rwd) ==
    { alloc \in UNION { { [x \in {r} |-> << rwd[r][k][1], rwd[r][k][2] + 1 >>] :
                            k \in DOMAIN rwd[r] } : r \in DOMAIN rwd } :
        ~CommitOk(window_manager, alloc) }

\* mutant: a failing commit is caught like an AllocationError: a message is
\* recorded for the task and the loop goes on
CommitRaises_Caught ==
    /\ InLoop
    /\ LET est == CurEarliestStart
           rwd == CurWindows(est)
       IN  /\ est # None
           /\ rwd # << >>
           /\ BrokenProposals(rwd) # {}
    /\ calls' = calls \o Called(CurId, << "get_task_resource_windows_dict",
                                          "allocate_task",
                                          "update_resource_windows" >>)
    /\ task_vars' = update_error_message(task_vars, CurId, "invariant violation")
    /\ UNCHANGED window_manager
    /\ NextIteration

\* lines 62-75 with an allocator that breaks its contract: allocate_task
\* returns a proposal, update_resource_windows (line 75, outside the try)
\* fails on it, and nothing in solve catches that failure
CommitRaises ==
    /\ InLoop
    /\ LET est == CurEarliestStart
           rwd == CurWindows(est)
       IN  /\ est # None
           /\ rwd # << >>
           /\ BrokenProposals(rwd) # {}
    /\ calls' = calls \o Called(CurId, << "get_task_resource_windows_dict",
                                          "allocate_task",
                                          "update_resource_windows" >>)
    /\ pc' = "raised"
    /\ UNCHANGED << inputs, scheduler_vars, window_manager, task_vars, i, result,
                    processed >>

\* lines 91-93: list(self.task_vars.values()), in task_dict's key order
Return ==
    /\ pc = "loop"
    /\ i > Len(task_order)
    /\ pc' = "done"
    /\ result' = ResultList(task_vars)
    /\ UNCHANGED << inputs, scheduler_vars, window_manager, task_vars, i, processed,
                    calls >>

Next == Blocked \/ NoResources \/ AllocationFailed \/ Scheduled \/ Return

Spec == Init /\ [][Next]_vars

\* solve with an allocator that may break its contract
NextBrokenContract == Next \/ CommitRaises

SpecBrokenContract == Init /\ [][NextBrokenContract]_vars

(***************************************************************************)
(* Scheduler (Scheduler.py): the constraint model Scheduler.schedule       *)
(* builds for the CP-SAT solver. The state holds, for every variable of    *)
(* the constraint model created so far, the value it has in the            *)
(* assignment the solver returns; a step that posts a constraint can be    *)
(* taken only with values that satisfy it. The states with spc = "solved" *)
(* are the assignments that satisfy every constraint of the model. The     *)
(* solver minimises the makespan but may return any such assignment        *)
(* (status FEASIBLE), so the objective selects nothing here.               *)
(***************************************************************************)
\* an availability slot of a resource: the dict the loop at line 96 reads
Slot(slot_id, start, end) == [slot_id |-> slot_id, start |-> start, end |-> end]

\* lines 5-8
Resource(id, availability_slots) ==
    [class |-> "Resource", id |-> id, availability_slots |-> availability_slots]

\* lines 18-21
ResourceGroup(resource_group_id, rs) ==
    [class |-> "ResourceGroup", resource_group_id |-> resource_group_id,
     resources |-> rs]

\* lines 31-37: the Task of Scheduler.py; schedule reads neither priority
\* nor predecessors
SchedulerTask(id, duration, resource_group) ==
    [class |-> "Task", id |-> id, duration |-> duration, priority |-> 0,
     resource_group |-> resource_group, predecessors |-> << >>]

\* what __eq__ returns when the other object is of another class
NotImplemented == << >>

\* lines 10-13
Resource_eq(self, other) ==
    IF other.class = "Resource" THEN Some(self.id = other.id) ELSE NotImplemented

\* mutant: the equality a dataclass generates, which compares every field
ResourceGroup_eq_AllFields(self, other) ==
    IF other.class = "ResourceGroup" THEN Some(self = other) ELSE NotImplemented

\* lines 23-26
ResourceGroup_eq(self, other) ==
    IF other.class = "ResourceGroup"
    THEN Some(self.resource_group_id = other.resource_group_id)
    ELSE NotImplemented

\* lines 39-42
Task_eq(self, other) ==
    IF other.class = "Task" THEN Some(self.id = other.id) ELSE NotImplemented

\* self.__eq__(other)
eq(self, other) ==
    CASE self.class = "Resource" -> Resource_eq(self, other)
      [] self.class = "ResourceGroup" -> ResourceGroup_eq(self, other)
      [] self.class = "Task" -> Task_eq(self, other)

\* a == b: a.__eq__(b), then b.__eq__(a), and when both return
\* NotImplemented the identity of the objects
PyEq(a, b) ==
    IF eq(a, b) # NotImplemented THEN Val(eq(a, b))
    ELSE IF eq(b, a) # NotImplemented THEN Val(eq(b, a))
    ELSE a = b

\* hash() of an int of small magnitude: the int itself, but -2 for -1
HashInt(n) == IF n = -1 THEN -2 ELSE n

\* lines 15-16, 28-29, 44-45
hash(self) ==
    CASE self.class = "Resource" -> HashInt(self.id)
      [] self.class = "ResourceGroup" -> HashInt(self.resource_group_id)
      [] self.class = "Task" -> HashInt(self.id)

\* adding x to a set: nothing happens when the set has an element with the
\* hash of x that equals x
SetAdd(S, x) ==
    IF \E y \in S : hash(y) = hash(x) /\ PyEq(y, x) THEN S ELSE S \cup {x}

\* set(iterable), the elements added in the order of the iterable
RECURSIVE SetOf(_)
SetOf(seq) ==
    IF seq = << >> THEN {}
    ELSE SetAdd(SetOf(SubSeq(seq, 1, Len(seq) - 1)), seq[Len(seq)])

\* the orders in which a set may be iterated
Orderings(S) == { seq \in [1 .. Cardinality(S) -> S] : Range(seq) = S }

RECURSIVE Concat(_)
Concat(seqs) == IF seqs = << >> THEN << >> ELSE Head(seqs) \o Concat(Tail(seqs))

RECURSIVE SumSeq(_)
SumSeq(s) == IF s = << >> THEN 0 ELSE Head(s) + SumSeq(Tail(s))

\* line 47
get_resources(task) == task.resource_group.resources

(***************************************************************************)
(* The tasks a Scheduler may be constructed with.                          *)
(***************************************************************************)
Ra == Resource(1, << Slot(0, 0, 2), Slot(1, 3, 5), Slot(2, 6, 8) >>)
Rb == Resource(2, << Slot(0, 0, 2) >>)
\* another resource with the id of Rb
Rb2 == Resource(2, << Slot(0, 1, 3) >>)

GA == ResourceGroup(-1, << Ra >>)
GB == ResourceGroup(-2, << Ra, Rb >>)
\* other groups with the id of GB
GC == ResourceGroup(-2, << Rb2 >>)
GD == ResourceGroup(-2, << Rb, Rb2 >>)

ResourceGroups == { GA, GB, GC, GD }

\* one task, or two; the second may have the id of the first
TaskLists ==
    { << SchedulerTask(1, d, g) >> : d \in {1, MaxDur}, g \in ResourceGroups }
      \cup { << SchedulerTask(1, d, g), SchedulerTask(id, e, h) >> :
               d \in {1, MaxDur}, g \in ResourceGroups,
               id \in {1, 2}, e \in {1, MaxDur}, h \in ResourceGroups }

\* a horizon that cuts the last slot of Ra off, and one that does not
Horizons == { 5, 8 }

\* no HeuristicSolver has been constructed
SolverIdle ==
    /\ task_dict = << >>
    /\ task_order = << >>
    /\ resources = << >>
    /\ window_manager = << >>
    /\ task_vars = << >>
    /\ i = 1
    /\ pc = "idle"
    /\ result = None
    /\ processed = << >>
    /\ calls = << >>

\* lines 51-55
SchedulerInit ==
    /\ SolverIdle
    /\ tasks \in TaskLists
    /\ horizon \in Horizons
    /\ resource_groups = {}
    /\ self_resources = {}
    /\ resource_bools = << >>
    /\ subtask_vars = << >>
    /\ subtask_durations = << >>
    /\ cursor = << 1, 1 >>
    /\ spc = "sets"

\* the keys of resource_bools and subtask_vars
Key(ti, ri) == << tasks[ti].id, get_resources(tasks[ti])[ri].id >>

Keys ==
    UNION { { Key(ti, ri) : ri \in DOMAIN get_resources(tasks[ti]) } :
              ti \in DOMAIN tasks }

\* lines 61-64: resource_groups takes the groups in the order of tasks;
\* resources takes the resources group by group, the groups in the order in
\* which the set resource_groups happens to be iterated
BuildSets ==
    /\ spc = "sets"
    /\ resource_groups' =
           SetOf([k \in DOMAIN tasks |-> tasks[k].resource_group])
    /\ \E order \in Orderings(resource_groups') :
           self_resources' =
               SetOf(Concat([k \in DOMAIN order |-> order[k].resources]))
    /\ spc' = "resource_bools"
    /\ UNCHANGED << solver_vars, tasks, horizon, resource_bools, subtask_vars,
                    subtask_durations, cursor >>

\* lines 75-81: one BoolVar per key; a key met again gets a new variable,
\* which replaces the old one in the dict
NewResourceBools ==
    /\ spc = "resource_bools"
    /\ resource_bools' \in [Keys -> BOOLEAN]
    /\ spc' = "exactly_one"
    /\ UNCHANGED << solver_vars, tasks, horizon, resource_groups, self_resources,
                    subtask_vars, subtask_durations, cursor >>

\* the number of true literals in the list line 85 hands to AddExactlyOne
Selected(ti) ==
    Cardinality({ ri \in DOMAIN get_resources(tasks[ti]) :
                    resource_bools[Key(ti, ri)] })

\* lines 83-88: exactly one literal of each task is true; the subtask lists
\* start empty
AddExactlyOne ==
    /\ spc = "exactly_one"
    /\ \A ti \in DOMAIN tasks : Selected(ti) = 1
    /\ subtask_vars' = [key \in Keys |-> << >>]
    /\ spc' = "subtasks"
    /\ UNCHANGED << solver_vars, tasks, horizon, resource_groups, self_resources,
                    resource_bools, subtask_durations, cursor >>

\* the task and the resource the loops of lines 91 and 94 are at
CurSchedTask == tasks[cursor[1]]
CurResource == get_resources(CurSchedTask)[cursor[2]]
CurKey == Key(cursor[1], cursor[2])

\* lines 103-135: the constraints posted for the subtask st of a slot, sum
\* being sum(subtask_durations) with the subtask's own duration included
SubtaskConstraints(slot, task_duration, sum, st) ==
    \* line 103: the interval variable ties start, duration and end
    /\ st.start + st.duration = st.end
    \* lines 107-108
    /\ st.is_task_start <=> (sum = st.duration)
    \* lines 112-113
    /\ st.is_task_end <=> (sum = task_duration)
    \* lines 117-118
    /\ st.duration_is_zero <=> (st.duration = 0)
    \* lines 123-124
    /\ st.is_in_progress <=> (sum = task_duration)
    \* lines 128-129
    /\ (st.is_in_progress /\ ~st.is_task_end /\ ~st.is_task_start)
           => (st.start = slot.start /\ st.end = slot.end)
    \* line 132
    /\ (st.is_task_start /\ ~st.is_task_end) => st.end = slot.end
    \* line 135
    /\ (st.is_task_end /\ ~st.is_task_start) => st.start = slot.start

\* lines 99-101, 106, 111, 116, 121: the values the variables of a subtask
\* may take
Subtasks(subtask_id, slot, task_duration) ==
    [subtask_id : {subtask_id},
     slot_id : {slot.slot_id},
     start : slot.start .. slot.end,
     duration : 0 .. task_duration,
     end : slot.start .. slot.end,
     is_task_start : BOOLEAN,
     is_in_progress : BOOLEAN,
     is_task_end : BOOLEAN,
     duration_is_zero : BOOLEAN]

\* lines 96-149: the subtask of the next slot of the resource at hand
NewSubtask ==
    /\ spc = "subtasks"
    /\ Len(subtask_durations) < Len(CurResource.availability_slots)
    /\ LET subtask_id == Len(subtask_durations)
           slot == CurResource.availability_slots[subtask_id + 1]
       IN  \E st \in Subtasks(subtask_id, slot, CurSchedTask.duration) :
               /\ SubtaskConstraints(slot, CurSchedTask.duration,
                                     SumSeq(subtask_durations) + st.duration, st)
               /\ subtask_durations' = Append(subtask_durations, st.duration)
               /\ subtask_vars' =
                      [subtask_vars EXCEPT ![CurKey] = Append(@, st)]
    /\ UNCHANGED << solver_vars, tasks, horizon, resource_groups, self_resources,
                    resource_bools, cursor, spc >>

\* the loops of lines 91 and 94 move on
NextResource ==
    /\ subtask_durations' = << >>
    /\ IF cursor[2] < Len(get_resources(CurSchedTask))
       THEN cursor' = << cursor[1], cursor[2] + 1 >> /\ spc' = spc
       ELSE IF cursor[1] < Len(tasks)
       THEN cursor' = << cursor[1] + 1, 1 >> /\ spc' = spc
       ELSE cursor' = cursor /\ spc' = "no_overlap"
    /\ UNCHANGED << solver_vars, tasks, horizon, resource_groups, self_resources,
                    resource_bools, subtask_vars >>

\* mutant: the constraint of line 153 is left out
CloseResource_SelectedOnly ==
    /\ spc = "subtasks"
    /\ Len(subtask_durations) = Len(CurResource.availability_slots)
    /\ resource_bools[CurKey] => SumSeq(subtask_durations) = CurSchedTask.duration
    /\ NextResource

\* lines 151-153: after the last slot of the resource, the durations add up
\* to the task's duration if the resource is selected and to 0 if not
CloseResource ==
    /\ spc = "subtasks"
    /\ Len(subtask_durations) = Len(CurResource.availability_slots)
    /\ resource_bools[CurKey] => SumSeq(subtask_durations) = CurSchedTask.duration
    /\ ~resource_bools[CurKey] => SumSeq(subtask_durations) = 0
    /\ NextResource

\* the intervals of resource_intervals[resource_id] that are present:
\* <<key, position in subtask_vars[key]>>
PresentIntervals(resource_id) ==
    { x \in UNION { { << key, k >> : k \in DOMAIN subtask_vars[key] } :
                      key \in Keys } :
        x[1][2] = resource_id /\ resource_bools[x[1]] }

\* AddNoOverlap: the present intervals can be put in a sequence in which
\* each ends before the next starts
NoOverlap(resource_id) ==
    \A x, y \in PresentIntervals(resource_id) :
        x # y =>
            LET a == subtask_vars[x[1]][x[2]]
                b == subtask_vars[y[1]][y[2]]
            IN  a.end <= b.start \/ b.end <= a.start

\* lines 157-171: resource_intervals has a key for each member of the set
\* resources; a subtask of a resource whose id is not among them raises
\* KeyError at line 168
AddNoOverlap ==
    /\ spc = "no_overlap"
    /\ IF \E key \in Keys : key[2] \notin { r.id : r \in self_resources }
       THEN spc' = "raised"
       ELSE /\ \A r \in self_resources : NoOverlap(r.id)
            /\ spc' = "solve"
    /\ UNCHANGED << solver_vars, tasks, horizon, resource_groups, self_resources,
                    resource_bools, subtask_vars, subtask_durations, cursor >>

\* lines 173-188: end_var, between 0 and horizon, is the subtask's end, or 0
\* when its duration is zero; the makespan is the largest of them
Solve ==
    /\ spc = "solve"
    /\ \A key \in Keys : \A k \in DOMAIN subtask_vars[key] :
           (IF subtask_vars[key][k].duration_is_zero
            THEN 0 ELSE subtask_vars[key][k].end) \in 0 .. horizon
    /\ spc' = "solved"
    /\ UNCHANGED << solver_vars, tasks, horizon, resource_groups, self_resources,
                    resource_bools, subtask_vars, subtask_durations, cursor >>

SchedulerNext ==
    \/ BuildSets \/ NewResourceBools \/ AddExactlyOne \/ NewSubtask
    \/ CloseResource \/ AddNoOverlap \/ Solve

SchedulerSpec == SchedulerInit /\ [][SchedulerNext]_vars

(***************************************************************************)
(* The vocabulary of the properties.                                       *)
(***************************************************************************)
\* dict.get("error_message"): the record of a scheduled task has no such key
ErrorMessage(rec) ==
    IF "error_message" \in DOMAIN rec THEN rec["error_message"] ELSE None

\* a complete allocation: every result field is set
Complete(rec) ==
    /\ rec["assigned_resource_ids"] # None
    /\ rec["task_start"] # None
    /\ rec["task_end"] # None
    /\ rec["resource_intervals"] # None

\* no result field of an allocation is set
NoAllocation(rec) ==
    /\ rec["assigned_resource_ids"] = None
    /\ rec["task_start"] = None
    /\ rec["task_end"] = None
    /\ rec["resource_intervals"] = None

IsScheduled(t) == Complete(task_vars[t]) /\ ErrorMessage(task_vars[t]) = None
IsPending(t) == task_vars[t] = EmptyRecord(t)
HasError(t, message) ==
    NoAllocation(task_vars[t]) /\ ErrorMessage(task_vars[t]) = Some(message)

\* the record of a task that ended with an error message and nothing else
ErrorRecord(t, message) ==
    [EmptyRecord(t) EXCEPT !["error_message"] = Some(message)]

BlockedMessage == "Task has unscheduled predecessors"
NoResourcesMessage == "No available resources"

TaskStart(t) == Val(task_vars[t]["task_start"])
TaskEnd(t) == Val(task_vars[t]["task_end"])

\* the sub-intervals the record rec commits on resource r
CommittedIn(rec, r) ==
    IF rec["resource_intervals"] = None THEN {}
    ELSE { Val(rec["resource_intervals"])[k] :
             k \in { j \in DOMAIN Val(rec["assigned_resource_ids"]) :
                       Val(rec["assigned_resource_ids"])[j] = r } }

\* the sub-intervals task t has committed on resource r
CommittedOn(t, r) == CommittedIn(task_vars[t], r)

\* the time points committed on resource r so far
CommittedPoints(r) ==
    UNION { Points(iv) : iv \in UNION { CommittedOn(t, r) : t \in TaskIds } }

\* the position of task t in a sequence of task ids it occurs in
Position(seq, t) == CHOOSE k \in DOMAIN seq : seq[k] = t

(***************************************************************************)
(* C1: no double-booking. After any prefix of task_order has been          *)
(* processed, no two tasks have committed sub-intervals that overlap in    *)
(* time on the same resource.                                              *)
(***************************************************************************)
C1_NoDoubleBooking ==
    \A r \in ResourceIds : \A t, u \in TaskIds :
        t # u =>
            \A a \in CommittedOn(t, r), b \in CommittedOn(u, r) :
                Points(a) \cap Points(b) = {}

\* three tasks have committed time on the same resource
C1_Witness ==
    \E r \in ResourceIds :
        Cardinality({ t \in TaskIds : CommittedOn(t, r) # {} }) = 3

(***************************************************************************)
(* C2: the calendar invariant. For every resource, in every state (so      *)
(* after every commit), the remaining windows are sorted by start, do not  *)
(* overlap, have start < end, and cover exactly the original availability  *)
(* minus the sub-intervals committed so far.                               *)
(***************************************************************************)
C2_CalendarInvariant ==
    \A r \in ResourceIds :
        /\ WellFormed(window_manager[r])
        /\ CalendarPoints(window_manager[r]) =
               CalendarPoints(resources[r]) \ CommittedPoints(r)

\* a commit has split a window: the resource has more windows than it
\* started with, and a second commit has followed
C2_Witness ==
    \E r \in ResourceIds :
        /\ Len(window_manager[r]) > Len(resources[r])
        /\ Cardinality({ t \in TaskIds : CommittedOn(t, r) # {} }) >= 2

(***************************************************************************)
(* C3: precedence. A scheduled task that has predecessors starts no        *)
(* earlier than the latest task_end of its predecessors plus its own       *)
(* predecessor_delay.                                                      *)
(***************************************************************************)
C3_PrecedenceRespected ==
    \A t \in TaskIds :
        (IsScheduled(t) /\ task_dict[t].predecessors # {}) =>
            /\ \A p \in task_dict[t].predecessors : IsScheduled(p)
            /\ TaskStart(t) >=
                   Max({ TaskEnd(p) : p \in task_dict[t].predecessors })
                     + task_dict[t].predecessor_delay

\* a scheduled task with a delay and two predecessors that end at different
\* times
C3_Witness ==
    \E t \in TaskIds :
        /\ IsScheduled(t)
        /\ task_dict[t].predecessor_delay > 0
        /\ \E p, q \in task_dict[t].predecessors : TaskEnd(p) < TaskEnd(q)

(***************************************************************************)
(* C4: a per-task failure never aborts the run. Every step of the loop,   *)
(* whatever the outcome of the task, goes on to the next id of task_order, *)
(* and only after the last id does solve return; the loop never raises,    *)
(* the ids taken so far are the prefix of task_order up to the loop        *)
(* position, and when solve has returned it has taken every id of          *)
(* task_order, in the order supplied.                                      *)
(***************************************************************************)
C4_Step ==
    pc = "loop" =>
        IF i <= Len(task_order)
        THEN /\ pc' = "loop"
             /\ i' = i + 1
             /\ processed' = Append(processed, task_order[i])
        ELSE /\ pc' = "done"
             /\ processed' = processed

C4_InOrder ==
    /\ pc # "raised"
    /\ i <= Len(task_order) + 1
    /\ processed = SubSeq(task_order, 1, i - 1)
    /\ pc = "done" => processed = task_order

C4_RunCompletes == [][C4_Step]_vars /\ []C4_InOrder

\* solve has returned after a blocked first task, a second task that failed
\* for another reason and a third task that was scheduled
C4_Witness ==
    /\ pc = "done"
    /\ Len(task_order) = 3
    /\ HasError(task_order[1], BlockedMessage)
    /\ ~IsScheduled(task_order[2])
    /\ ~HasError(task_order[2], BlockedMessage)
    /\ IsScheduled(task_order[3])

(***************************************************************************)
(* C5: blocking propagates. When the loop takes a task one of whose        *)
(* predecessors is not scheduled, the task's record gets the message       *)
(* "Task has unscheduled predecessors" and nothing else, no call is made   *)
(* to the window manager or the allocator, and the calendars stay as they  *)
(* are; a blocked task has no task_end, and every task taken after it      *)
(* that has it as a predecessor is blocked too.                            *)
(***************************************************************************)
C5_Step ==
    (InLoop /\ \E p \in get_task_predecessors(CurTask, task_dict) : ~IsScheduled(p))
        => /\ task_vars' =
                  [task_vars EXCEPT ![CurId] = ErrorRecord(CurId, BlockedMessage)]
           /\ calls' = calls
           /\ window_manager' = window_manager

C5_Successors ==
    \A t \in TaskIds :
        HasError(t, BlockedMessage) =>
            /\ task_vars[t]["task_end"] = None
            /\ \A u \in Range(processed) :
                   (/\ t \in task_dict[u].predecessors
                    /\ Position(processed, t) < Position(processed, u))
                       => HasError(u, BlockedMessage)

C5_BlockingPropagates == [][C5_Step]_vars /\ []C5_Successors

\* a task could not be allocated, its successor was blocked, and so was the
\* successor's successor, which does not depend on the first task directly
C5_Witness ==
    \E a, b, c \in TaskIds :
        /\ HasError(a, "insufficient availability")
        /\ a \in task_dict[b].predecessors
        /\ HasError(b, BlockedMessage)
        /\ b \in task_dict[c].predecessors
        /\ a \notin task_dict[c].predecessors
        /\ HasError(c, BlockedMessage)

(***************************************************************************)
(* C6: in the list solve returns, a record has either a complete           *)
(* allocation or an error message, not both and not neither.               *)
(***************************************************************************)
ExactlyOne(rec) == Complete(rec) # (ErrorMessage(rec) # None)

C7_Step ==
    \A t \in TaskIds :
        /\ ~IsPending(t) => task_vars'[t] = task_vars[t]
        /\ task_vars'[t] # task_vars[t] => (InLoop /\ t = CurId)

RECURSIVE TotalLength(_)
TotalLength(intervals) ==
    IF intervals = << >> THEN 0
    ELSE (Head(intervals)[2] - Head(intervals)[1]) + TotalLength(Tail(intervals))

C8_Sum ==
    \A t \in TaskIds :
        IsScheduled(t) =>
            TotalLength(Val(task_vars[t]["resource_intervals"])) = task_dict[t].duration

C8_Step ==
    InLoop =>
        /\ \A r \in ResourceIds : \A iv \in CommittedIn(task_vars'[CurId], r) :
               Contained(window_manager[r], iv)
        /\ (/\ window_manager[1] = << <<0, 4>>, <<5, 10>> >>
            /\ CurTask.duration = 3
            /\ CurTask.predecessors = {}
            /\ CurTask.resources = {1})
               => /\ task_vars'[CurId]["assigned_resource_ids"] = Some(<< 1 >>)
                  /\ task_vars'[CurId]["resource_intervals"] = Some(<< <<0, 3>> >>)
                  /\ window_manager'[1] = << <<3, 4>>, <<5, 10>> >>

C8_EffortConserved == [][C8_Step]_vars /\ []C8_Sum

\* a task of duration 3 has committed [0,3) on resource 1, whose windows
\* were [0,4) and [5,10) and are now [3,4) and [5,10)
C8_Witness ==
    /\ resources[1] = << <<0, 4>>, <<5, 10>> >>
    /\ window_manager[1] = << <<3, 4>>, <<5, 10>> >>
    /\ \E t \in TaskIds :
           /\ task_dict[t].duration = 3
           /\ task_vars[t]["assigned_resource_ids"] = Some(<< 1 >>)
           /\ task_vars[t]["resource_intervals"] = Some(<< <<0, 3>> >>)

(***************************************************************************)
(* C9: _get_task_earliest_start is 0 for a task without predecessors; for  *)
(* a task all of whose predecessors are scheduled it is the largest, over  *)
(* the predecessors, of the predecessor's task_end plus the task's         *)
(* predecessor_delay. One predecessor ending at 3 and a delay of 2 give 5. *)
(***************************************************************************)
\* the largest element of a non-empty finite set of numbers, by its definition
IsMaximum(m, S) == m \in S /\ \A x \in S : x <= m

C9_ExampleVars == [t \in {1, 2} |-> [task_end |-> IF t = 1 THEN Some(3) ELSE None]]
C9_ExampleTask == Task(1, {1}, 2, << {1}, 1 >>)

C9_EarliestStart ==
    /\ \A t \in TaskIds :
           LET est == get_task_earliest_start(task_vars, task_dict[t], task_dict)
               preds == task_dict[t].predecessors
           IN  /\ preds = {} => est = Some(0)
               /\ (preds # {} /\ \A p \in preds : IsScheduled(p)) =>
                      /\ est # None
                      /\ IsMaximum(Val(est),
                                   { TaskEnd(p) + task_dict[t].predecessor_delay :
                                       p \in preds })
    /\ get_task_earliest_start(C9_ExampleVars, C9_ExampleTask,
                               [t \in {1, 2} |-> C9_ExampleTask]) = Some(5)

\* the loop is at a task with a delay of 2 whose two predecessors are
\* scheduled, the later one ending at 3: its earliest start is 5
C9_Witness ==
    /\ InLoop
    /\ CurTask.predecessor_delay = 2
    /\ \E p, q \in CurTask.predecessors :
           /\ IsScheduled(p) /\ IsScheduled(q)
           /\ TaskEnd(p) < TaskEnd(q)
           /\ TaskEnd(q) = 3
    /\ CurEarliestStart = Some(5)

(***************************************************************************)
(* C10: the no-resources short-circuit. When the loop takes a task whose   *)
(* predecessors are all scheduled and none of whose eligible resources     *)
(* has a time point at or after the task's earliest start, the task's      *)
(* record gets the message "No available resources" and nothing else, the  *)
(* allocator is not called for it, and the calendars stay as they are.     *)
(***************************************************************************)
NoAvailability(task, floor_time) ==
    \A r \in task.resources :
        \A x \in CalendarPoints(window_manager[r]) : x < floor_time

C10_Step ==
    (/\ InLoop
     /\ CurEarliestStart # None
     /\ NoAvailability(CurTask, Val(CurEarliestStart)))
        => /\ task_vars' =
                  [task_vars EXCEPT ![CurId] = ErrorRecord(CurId, NoResourcesMessage)]
           /\ << CurId, "allocate_task" >> \notin Range(calls')
           /\ window_manager' = window_manager

C10_NoResources == [][C10_Step]_vars

\* a task found no resources: one of its eligible resources has no window
\* at all, the other has a window left, which ends before the task's
\* earliest start
C10_Witness ==
    \E t \in TaskIds :
        /\ HasError(t, NoResourcesMessage)
        /\ \E r \in task_dict[t].resources : window_manager[r] = << >>
        /\ \E r \in task_dict[t].resources : window_manager[r] # << >>

(***************************************************************************)
(* C11: allocation failure. When the allocator answers a task with an      *)
(* AllocationError, the task's record gets the error's reason as its       *)
(* error message and nothing else, and the step changes no calendar and    *)
(* no other task's record; a task the allocator was called for and that    *)
(* was never committed keeps one of the allocator's reasons.               *)
(***************************************************************************)
AllocationReasons == { "not enough resources", "insufficient availability" }

C11_Step ==
    (/\ InLoop
     /\ CurEarliestStart # None
     /\ CurWindows(CurEarliestStart) # << >>
     /\ ~CurResult.ok)
        => /\ CurResult.reason \in AllocationReasons
           /\ task_vars' =
                  [task_vars EXCEPT ![CurId] = ErrorRecord(CurId, CurResult.reason)]
           /\ window_manager' = window_manager

C11_Ends ==
    \A t \in TaskIds :
        (/\ << t, "allocate_task" >> \in Range(calls)
         /\ << t, "update_resource_windows" >> \notin Range(calls))
            => \E reason \in AllocationReasons : task_vars[t] = ErrorRecord(t, reason)

C11_AllocationFailed == [][C11_Step]_vars /\ []C11_Ends

\* one task was scheduled and two failed in the allocator, each for another
\* reason
C11_Witness ==
    \E t, u, v \in TaskIds :
        /\ IsScheduled(t)
        /\ HasError(u, "not enough resources")
        /\ HasError(v, "insufficient availability")

(***************************************************************************)
(* C12: the commit step is the only mutator of the calendars. A step that  *)
(* changes a calendar is a step that calls update_resource_windows for     *)
(* the task the loop is at; and in every state, so also when the run is    *)
(* over, update_resource_windows has been called once for each scheduled   *)
(* task and never for any other task.                                      *)
(***************************************************************************)
Commits(t) ==
    Cardinality({ k \in DOMAIN calls : calls[k] = << t, "update_resource_windows" >> })

C12_Step ==
    window_manager' # window_manager
        => /\ InLoop
           /\ Len(calls') > Len(calls)
           /\ calls'[Len(calls')] = << CurId, "update_resource_windows" >>

C12_Count == \A t \in TaskIds : Commits(t) = IF IsScheduled(t) THEN 1 ELSE 0

IsMinimum(m, S) == m \in S /\ \A x \in S : m <= x

C13_Step ==
    (/\ InLoop
     /\ CurEarliestStart # None
     /\ CurWindows(CurEarliestStart) # << >>
     /\ CurResult.ok)
        => LET alloc == CurResult.alloc
               rec == task_vars'[CurId]
           IN  /\ Complete(rec)
               /\ IsMinimum(Val(rec["task_start"]),
                            { alloc[r][1] : r \in DOMAIN alloc })
               /\ IsMaximum(Val(rec["task_end"]),
                            { alloc[r][2] : r \in DOMAIN alloc })
               /\ Range(Val(rec["assigned_resource_ids"])) = DOMAIN alloc
               /\ Len(Val(rec["assigned_resource_ids"])) = Cardinality(DOMAIN alloc)
               /\ Val(rec["task_start"]) <= Val(rec["task_end"])

C13_Recorded ==
    \A t \in TaskIds :
        IsScheduled(t) =>
            LET ivs == Range(Val(task_vars[t]["resource_intervals"]))
            IN  /\ IsMinimum(TaskStart(t), { iv[1] : iv \in ivs })
                /\ IsMaximum(TaskEnd(t), { iv[2] : iv \in ivs })
                /\ TaskStart(t) <= TaskEnd(t)

C13_ScheduledRecord == [][C13_Step]_vars /\ []C13_Recorded

\* a scheduled task shared by two resources whose sub-intervals end at
\* different times
C13_Witness ==
    \E t \in TaskIds :
        /\ IsScheduled(t)
        /\ Len(Val(task_vars[t]["assigned_resource_ids"])) = 2
        /\ \E iv, jv \in Range(Val(task_vars[t]["resource_intervals"])) :
               iv[2] < jv[2]

(***************************************************************************)
(* C14: only the recoverable failures become error messages. With an       *)
(* allocator that may propose a span lying within no single window, the    *)
(* commit fails: solve records no error message for the task (the only     *)
(* messages ever recorded are those of the three recoverable kinds), the   *)
(* failure leaves solve, which returns no list, and the run is over: the   *)
(* tasks that follow in task_order are not taken.                          *)
(***************************************************************************)
RecoverableMessages == { BlockedMessage, NoResourcesMessage } \cup AllocationReasons

C14_Step ==
    /\ pc' = "raised" =>
           /\ task_vars' = task_vars
           /\ window_manager' = window_manager
           /\ result' = None
    /\ pc = "raised" => UNCHANGED vars

C14_Messages ==
    /\ \A t \in TaskIds :
           ErrorMessage(task_vars[t]) # None
               => Val(ErrorMessage(task_vars[t])) \in RecoverableMessages
    /\ pc = "raised" =>
           /\ result = None
           /\ IsPending(CurId)
           /\ calls[Len(calls)] = << CurId, "update_resource_windows" >>

C14_CommitFailurePropagates == [][C14_Step]_vars /\ []C14_Messages

\* a commit has failed for the second task of three, after the first was
\* scheduled: the third is still pending
C14_Witness ==
    /\ pc = "raised"
    /\ Len(task_order) = 3
    /\ i = 2
    /\ IsScheduled(task_order[1])
    /\ IsPending(task_order[2])
    /\ IsPending(task_order[3])

(***************************************************************************)
(* C15: the list solve returns. It has one record per key of task_dict,    *)
(* in key order whatever the order of task_order, each the record of       *)
(* task_vars for that key; and each record is fully populated or carries   *)
(* an error message.                                                       *)
(***************************************************************************)
PopulatedOrError(rec) == Complete(rec) \/ ErrorMessage(rec) # None

\* one record per key of task_dict, in key order
OnePerKeyInKeyOrder ==
    /\ Len(Val(result)) = Cardinality(DOMAIN task_dict)
    /\ \A k \in DOMAIN Val(result) :
           /\ Val(result)[k]["task_id"] = SortedSeq(DOMAIN task_dict)[k]
           /\ Val(result)[k] = task_vars[SortedSeq(DOMAIN task_dict)[k]]

IdOf(o) == IF o.class = "ResourceGroup" THEN o.resource_group_id ELSE o.id

\* the groups of the tasks, and the objects the tasks bring along
GroupsOfTasks == { tasks[k].resource_group : k \in DOMAIN tasks }
ResourcesOf(groups) == UNION { Range(g.resources) : g \in groups }
Objects == Range(tasks) \cup GroupsOfTasks \cup ResourcesOf(GroupsOfTasks)

\* S has exactly one member for each id among the objects of From, and
\* nothing else
OnePerId(S, From) ==
    /\ S \subseteq From
    /\ \A x \in From : Cardinality({ y \in S : IdOf(y) = IdOf(x) }) = 1

C16_EqualByIdOnly ==
    /\ \A a, b \in Objects :
           a.class = b.class =>
               ((PyEq(a, b) /\ hash(a) = hash(b)) <=> (IdOf(a) = IdOf(b)))
    /\ spc \notin { "idle", "sets" } =>
           /\ OnePerId(resource_groups, GroupsOfTasks)
           /\ OnePerId(self_resources, ResourcesOf(resource_groups))

\* the sets have been built from two tasks with the same id and different
\* durations, whose groups have the same id and different members; the one
\* group kept lists two resources with the same id and different slots, of
\* which one is kept
C16_Witness ==
    /\ spc = "resource_bools"
    /\ Len(tasks) = 2
    /\ tasks[1].id = tasks[2].id /\ tasks[1].duration # tasks[2].duration
    /\ tasks[1].resource_group # tasks[2].resource_group
    /\ Cardinality(resource_groups) = 1
    /\ Cardinality(ResourcesOf(resource_groups)) = 2
    /\ Cardinality(self_resources) = 1

(***************************************************************************)
(* C17: continuity. In every assignment that satisfies the constraint      *)
(* model, on the resource selected for a task, every slot strictly         *)
(* between the slot where the task starts and the slot where it ends is    *)
(* filled completely (start = slot start, end = slot end), the starting    *)
(* slot is used up to its end and the ending slot from its start.          *)
(***************************************************************************)
\* the iterations of the loops of lines 91 and 94, in order
Iterations ==
    Concat([ti \in DOMAIN tasks |->
               [ri \in DOMAIN get_resources(tasks[ti]) |-> << ti, ri >>]])

SlotsOf(ti, ri) == get_resources(tasks[ti])[ri].availability_slots

\* the subtasks that iteration <<ti, ri>> appended to subtask_vars: those of
\* earlier iterations with the same key come before them in the list
SubtasksOf(ti, ri) ==
    LET pos == CHOOSE k \in DOMAIN Iterations : Iterations[k] = << ti, ri >>
        before == SumSeq([k \in 1 .. (pos - 1) |->
                            IF Key(Iterations[k][1], Iterations[k][2]) = Key(ti, ri)
                            THEN Len(SlotsOf(Iterations[k][1], Iterations[k][2]))
                            ELSE 0])
    IN  SubSeq(subtask_vars[Key(ti, ri)], before + 1, before + Len(SlotsOf(ti, ri)))

\* the slots in which the subtasks sts place some of the duration
Placed(sts) == { k \in DOMAIN sts : sts[k].duration > 0 }

\* the work of the subtasks sts in the slots is continuous
Continuous(sts, slots) ==
    Placed(sts) # {} =>
        LET first == Min(Placed(sts))
            last == Max(Placed(sts))
        IN  /\ \A k \in DOMAIN sts :
                   (first < k /\ k < last)
                       => (sts[k].start = slots[k].start /\ sts[k].end = slots[k].end)
            /\ first < last
                   => /\ sts[first].end = slots[first].end
                      /\ sts[last].start = slots[last].start

\* C17 as claimed
C17_Continuity ==
    spc = "solved" =>
        \A ti \in DOMAIN tasks : \A ri \in DOMAIN get_resources(tasks[ti]) :
            resource_bools[Key(ti, ri)]
                => Continuous(SubtasksOf(ti, ri), SlotsOf(ti, ri))

(***************************************************************************)
(* C18: one resource per task. In every assignment that satisfies the      *)
(* constraint model, each task has exactly one of its eligible resources   *)
(* selected, the durations of its subtasks on that resource add up to the  *)
(* task's duration, and those on each other eligible resource add up to 0. *)
(***************************************************************************)
DurationOn(ti, ri) ==
    SumSeq([k \in DOMAIN SubtasksOf(ti, ri) |-> SubtasksOf(ti, ri)[k].duration])

C18_OneResource ==
    spc = "solved" =>
        \A ti \in DOMAIN tasks :
            /\ Cardinality({ ri \in DOMAIN get_resources(tasks[ti]) :
                               resource_bools[Key(ti, ri)] }) = 1
            /\ \A ri \in DOMAIN get_resources(tasks[ti]) :
                   DurationOn(ti, ri) =
                       IF resource_bools[Key(ti, ri)] THEN tasks[ti].duration ELSE 0

\* a solution for two tasks: the first, with two eligible resources, is on
\* the second of them and has no duration on the first; the second task
\* spreads its duration over several slots of the first resource
C18_Witness ==
    /\ spc = "solved"
    /\ Len(tasks) = 2
    /\ tasks[1].id # tasks[2].id
    /\ Len(get_resources(tasks[1])) = 2
    /\ resource_bools[Key(1, 2)] /\ ~resource_bools[Key(1, 1)]
    /\ DurationOn(1, 1) = 0
    /\ Cardinality(Placed(SubtasksOf(2, 1))) >= 2

(***************************************************************************)
(* C19: a task is judged once, at its own position in task_order. A task   *)
(* the loop has taken while one of its predecessors was still to come in   *)
(* task_order has the record of a blocked task ("Task has unscheduled      *)
(* predecessors" and no allocation), and keeps it whatever happens to      *)
(* that predecessor later in the run.                                      *)
(***************************************************************************)
\* predecessor p of task t comes after t in task_order
ComesLater(p, t) ==
    /\ p \in task_dict[t].predecessors
    /\ p \in Range(task_order) /\ t \in Range(task_order)
    /\ Position(task_order, p) > Position(task_order, t)

AllNull(rec) == NoAllocation(rec) /\ ErrorMessage(rec) = None

C20_OmittedTask ==
    \A t \in TaskIds \ Range(task_order) :
        /\ t \notin Range(processed)
        /\ \A k \in DOMAIN calls : calls[k][1] # t
        /\ AllNull(task_vars[t])
        /\ pc = "done" =>
               \E k \in DOMAIN Val(result) :
                   Val(result)[k]["task_id"] = t /\ AllNull(Val(result)[k])
        /\ \A u \in Range(processed) :
               t \in task_dict[u].predecessors
                   => /\ NoAllocation(task_vars[u])
                      /\ ErrorMessage(task_vars[u]) = Some(BlockedMessage)

\* solve has returned; task_order left out a task that another task names
\* as its predecessor, and a third task was scheduled
C20_Witness ==
    /\ pc = "done"
    /\ \E t, u, v \in TaskIds :
           /\ t \notin Range(task_order)
           /\ t \in task_dict[u].predecessors
           /\ HasError(u, BlockedMessage)
           /\ IsScheduled(v)
====
